---- MODULE Spec2Model ----
EXTENDS Integers, Naturals, Sequences, FiniteSets, TLC

\* ------------------------------------------------------------------
\* Triangular Life (src/psm_app/life.py)
\* ------------------------------------------------------------------

\* Grid dimensions used for the history state machine (the app uses 12x16,
\* the rules code works for any shape).
GridRows == 2
GridCols == 2
\* Upper bound on the generation counter (tri_step) explored.
MaxCursor == 3

\* Birth / survival selections offered by the sidebar (subsets of range(13)).
RuleChoices == { <<{2, 3}, {1, 2}>>, <<{1}, {0, 3}>> }

Cells(rows, cols) == (0..(rows - 1)) \X (0..(cols - 1))

\* get_triangle_neighbors(r, c, rows, cols)
EdgeOffsets(r, c) ==
  IF (r + c) % 2 = 0
    THEN << <<r, c - 1>>, <<r, c + 1>>, <<r + 1, c>> >>
    ELSE << <<r, c - 1>>, <<r, c + 1>>, <<r - 1, c>> >>

VertexOffsets(r, c) ==
  << <<r - 1, c - 1>>, <<r - 1, c>>, <<r - 1, c + 1>>,
     <<r, c - 2>>, <<r, c + 2>>,
     <<r + 1, c - 1>>, <<r + 1, c>>, <<r + 1, c + 1>>,
     <<r + 2, c>> >>

RECURSIVE AddInBounds(_, _, _, _)
AddInBounds(cands, rows, cols, neighbors) ==
  IF cands = << >> THEN neighbors
  ELSE LET p == Head(cands)
           nbs == IF 0 <= p[1] /\ p[1] < rows /\ 0 <= p[2] /\ p[2] < cols
                    THEN neighbors \cup {p} ELSE neighbors
       IN AddInBounds(Tail(cands), rows, cols, nbs)

\* variant: row bound checked with <= rows
get_triangle_neighbors_Mut(r, c, rows, cols) ==
  AddInBounds(EdgeOffsets(r, c) \o VertexOffsets(r, c), rows + 1, cols, {})

get_triangle_neighbors(r, c, rows, cols) ==
  AddInBounds(EdgeOffsets(r, c) \o VertexOffsets(r, c), rows, cols, {})

\* sum(grid[nr, nc] for nr, nc in coords)
RECURSIVE SumCells(_, _)
SumCells(grid, S) ==
  IF S = {} THEN 0
  ELSE LET p == CHOOSE q \in S : TRUE IN grid[p] + SumCells(grid, S \ {p})

\* the nested for r / for c loops, row-major
RowMajor(rows, cols) == [i \in 1..(rows * cols) |-> <<(i - 1) \div cols, (i - 1) % cols>>]

RECURSIVE RulesLoop(_, _, _, _, _, _, _)
RulesLoop(grid, birth, survive, rows, cols, todo, new_grid) ==
  IF todo = << >> THEN new_grid
  ELSE LET rc == Head(todo)
           neighbor_count == SumCells(grid, get_triangle_neighbors(rc[1], rc[2], rows, cols))
           ng == IF grid[rc] = 1
                   THEN IF neighbor_count \in survive THEN [new_grid EXCEPT ![rc] = 1] ELSE new_grid
                   ELSE IF neighbor_count \in birth THEN [new_grid EXCEPT ![rc] = 1] ELSE new_grid
       IN RulesLoop(grid, birth, survive, rows, cols, Tail(todo), ng)

\* variant: new_grid starts as a copy of grid instead of zeros_like
apply_triangular_rules_Mut(grid, birth, survive, rows, cols) ==
  RulesLoop(grid, birth, survive, rows, cols, RowMajor(rows, cols), grid)

apply_triangular_rules(grid, birth, survive, rows, cols) ==
  RulesLoop(grid, birth, survive, rows, cols, RowMajor(rows, cols),
            [p \in Cells(rows, cols) |-> 0])

Grids == [Cells(GridRows, GridCols) -> {0, 1}]

\* Live cells in the random initial grids explored.
MaxInitAlive == 2

\* (np.random.rand(12, 16) < 0.3).astype(int), restricted to sparse grids
InitGrids == {g \in Grids : Cardinality({p \in DOMAIN g : g[p] = 1}) <= MaxInitAlive}

VARIABLES
  tri_history,   \* st.session_state.tri_history (1-indexed here)
  tri_step,      \* st.session_state.tri_step
  lastOp,        \* button handled by the last script run
  lastRules,     \* rules used by the last Next
  origin,        \* origin[i+1]: tri_history when tri_step last reached i by Next/Reset
  discarded,     \* grid removed by a Back, until the next run
  branched       \* the last Next followed a Back and produced a different grid

life_vars == <<tri_history, tri_step, lastOp, lastRules, origin, discarded, branched>>

EmptyGrid == [p \in Cells(GridRows, GridCols) |-> 0]

\* first run: session state initialised with a random grid
LifeInitVars ==
  \E g \in InitGrids :
    /\ tri_history = <<g>>
    /\ tri_step = 0
    /\ lastOp = "Init"
    /\ lastRules = <<{}, {}>>
    /\ origin = << <<g>> >>
    /\ discarded = EmptyGrid
    /\ branched = FALSE

LifeIdle ==
  /\ tri_history = << >>
  /\ tri_step = 0
  /\ lastOp = "Init"
  /\ lastRules = <<{}, {}>>
  /\ origin = << >>
  /\ discarded = << >>
  /\ branched = FALSE

\* "Reset Simulation"
Reset ==
  \E g \in InitGrids :
    /\ tri_history' = <<g>>
    /\ tri_step' = 0
    /\ lastOp' = "Reset"
    /\ origin' = << <<g>> >>
    /\ discarded' = EmptyGrid
    /\ branched' = FALSE
    /\ UNCHANGED lastRules

\* variant: Back without the history slice
BackMove_NoSlice ==
  /\ tri_step > 0
  /\ tri_step' = tri_step - 1
  /\ tri_history' = tri_history
  /\ discarded' = tri_history[tri_step + 1]
  /\ lastOp' = "Back"
  /\ branched' = FALSE
  /\ UNCHANGED <<lastRules, origin>>

\* variant: slice keeps one entry too many
BackMove_SliceOff ==
  /\ tri_step > 0
  /\ tri_step' = tri_step - 1
  /\ tri_history' = SubSeq(tri_history, 1, tri_step + 1)
  /\ discarded' = tri_history[tri_step + 1]
  /\ lastOp' = "Back"
  /\ branched' = FALSE
  /\ UNCHANGED <<lastRules, origin>>

\* "Back (Delete Future)" pressed with tri_step > 0
BackMove ==
  /\ tri_step > 0
  /\ tri_step' = tri_step - 1
  /\ tri_history' = SubSeq(tri_history, 1, tri_step' + 1)
  /\ discarded' = tri_history[tri_step + 1]
  /\ lastOp' = "Back"
  /\ branched' = FALSE
  /\ UNCHANGED <<lastRules, origin>>

\* variant: Back without the tri_step > 0 guard
BackNoop_Unguarded ==
  /\ ~(tri_step > 0)
  /\ tri_step' = tri_step - 1
  /\ tri_history' = SubSeq(tri_history, 1, tri_step)
  /\ lastOp' = "BackNoop"
  /\ discarded' = EmptyGrid
  /\ branched' = FALSE
  /\ UNCHANGED <<lastRules, origin>>

\* "Back (Delete Future)" pressed with tri_step = 0: the condition is false
BackNoop ==
  /\ ~(tri_step > 0)
  /\ lastOp' = "BackNoop"
  /\ discarded' = EmptyGrid
  /\ branched' = FALSE
  /\ UNCHANGED <<tri_history, tri_step, lastRules, origin>>

\* "Next (New Future)"
Next_ ==
  /\ tri_step < MaxCursor
  /\ \E rules \in RuleChoices :
       LET current_state == tri_history[tri_step + 1]
           next_gen == apply_triangular_rules(current_state, rules[1], rules[2], GridRows, GridCols)
       IN /\ tri_history' = Append(tri_history, next_gen)
          /\ tri_step' = tri_step + 1
          /\ lastRules' = rules
          /\ origin' = SubSeq(origin, 1, tri_step + 1) \o <<tri_history'>>
          /\ branched' = (lastOp = "Back" /\ next_gen # discarded)
  /\ lastOp' = "Forward"
  /\ discarded' = EmptyGrid

\* ------------------------------------------------------------------
\* get_triangle_neighbors on the app's grid (life.py: np.random.rand(12, 16))
\* ------------------------------------------------------------------

NbRows == 12
NbCols == 16

VARIABLES
  nb_cell,   \* the (r, c) argument
  nb_res,    \* the returned neighbours (list(set) in the code)
  nb_done

nb_vars == <<nb_cell, nb_res, nb_done>>

NbInitVars ==
  /\ nb_cell \in Cells(NbRows, NbCols)
  /\ nb_res = {}
  /\ nb_done = FALSE

NbIdle == nb_cell = <<0, 0>> /\ nb_res = {} /\ nb_done = FALSE

NbCompute ==
  /\ ~nb_done
  /\ nb_res' = get_triangle_neighbors(nb_cell[1], nb_cell[2], NbRows, NbCols)
  /\ nb_done' = TRUE
  /\ UNCHANGED nb_cell

\* ------------------------------------------------------------------
\* Exact rational arithmetic: the real-number value of the code's float64
\* expressions (numpy's results differ from it by rounding, ~1e-16). Division
\* is only applied to non-zero divisors: masses are >= 0.1 and the normal is
\* only formed for centres at a non-zero distance (the zero-distance case is
\* handled separately in compute_collision, as numpy's nan).
\* ------------------------------------------------------------------

Abs(x) == IF x < 0 THEN -x ELSE x

RECURSIVE GCD(_, _)
GCD(a, b) == IF b = 0 THEN a ELSE GCD(b, a % b)

Qn(num, den) ==
  LET g == GCD(Abs(num), Abs(den))
      s == IF den < 0 THEN -1 ELSE 1
  IN [n |-> (s * num) \div g, d |-> (s * den) \div g]

QI(k) == [n |-> k, d |-> 1]
QAdd(a, b) ==
  LET g == GCD(a.d, b.d)
  IN Qn(a.n * (b.d \div g) + b.n * (a.d \div g), (a.d \div g) * b.d)
QNeg(a) == [n |-> -a.n, d |-> a.d]
QSub(a, b) == QAdd(a, QNeg(b))
\* cross-cancelled before multiplying
QMul(a, b) ==
  LET g1 == GCD(Abs(a.n), b.d)
      g2 == GCD(Abs(b.n), a.d)
  IN IF a.n = 0 \/ b.n = 0 THEN QI(0)
     ELSE Qn((a.n \div g1) * (b.n \div g2), (a.d \div g2) * (b.d \div g1))
QDiv(a, b) == QMul(a, Qn(b.d, b.n))
QLe(a, b) == QSub(b, a).n >= 0
QLt(a, b) == QSub(b, a).n > 0

VAdd(a, b) == <<QAdd(a[1], b[1]), QAdd(a[2], b[2])>>
VSub(a, b) == <<QSub(a[1], b[1]), QSub(a[2], b[2])>>
VScale(k, a) == <<QMul(k, a[1]), QMul(k, a[2])>>
VDot(a, b) == QAdd(QMul(a[1], b[1]), QMul(a[2], b[2]))
VI(x, y) == <<QI(x), QI(y)>>

\* numpy nan (0/0 in the normal at coincident centres)
NaN == "nan"
NaNVec == <<NaN, NaN>>

\* ------------------------------------------------------------------
\* Collision resolver (src/psm_app/collisions.py)
\* ------------------------------------------------------------------

\* The normal n = d/|d| enters twice (vn = v_rel.n, impulse = j*n), so
\* impulse/m = -(1+e) (v_rel.d) d / (|d|^2 (1/m1 + 1/m2) m): the exact value
\* needs no square root; sign(vn) = sign(v_rel.d) since |d| > 0, and
\* dist <= r1 + r2 is decided on squares. At |d| = 0 numpy gives n = nan,
\* vn = nan (nan > 0 is False), j = nan and nan velocities with True.
\* The result is the set of outcomes the float64 evaluation can produce:
\* where an exact comparison is an equality (dist = r1 + r2, or v_rel.d = 0),
\* the rounding of norm / division / dot decides the branch, so both
\* branches are possible (at v_rel.d = 0 the resolved velocities equal the
\* inputs, j = 0).
\* variant: the resolving branch reports has_collided = False
compute_collision_Mut(x1, x2, v1, v2, m1, m2, r1, r2, restitution) ==
  LET dist_vec == VSub(x1, x2)
      dist2 == VDot(dist_vec, dist_vec)
      rsum2 == QMul(QAdd(r1, r2), QAdd(r1, r2))
      unchanged == [v1 |-> v1, v2 |-> v2, hit |-> FALSE]
      touching ==
        IF dist2 = QI(0)
          THEN {[v1 |-> NaNVec, v2 |-> NaNVec, hit |-> TRUE]}
          ELSE LET v_rel == VSub(v1, v2)
                   vd == VDot(v_rel, dist_vec)
                   k == QDiv(QMul(QNeg(QAdd(QI(1), restitution)), vd),
                             QMul(dist2, QAdd(QDiv(QI(1), m1), QDiv(QI(1), m2))))
                   resolved == [v1 |-> VAdd(v1, VScale(QDiv(k, m1), dist_vec)),
                                v2 |-> VSub(v2, VScale(QDiv(k, m2), dist_vec)),
                                hit |-> FALSE]
               IN (IF QLe(vd, QI(0)) THEN {resolved} ELSE {})
                  \cup (IF QLe(QI(0), vd) THEN {unchanged} ELSE {})
  IN (IF QLe(dist2, rsum2) THEN touching ELSE {})
     \cup (IF QLe(rsum2, dist2) THEN {unchanged} ELSE {})

compute_collision(x1, x2, v1, v2, m1, m2, r1, r2, restitution) ==
  LET dist_vec == VSub(x1, x2)
      dist2 == VDot(dist_vec, dist_vec)
      rsum2 == QMul(QAdd(r1, r2), QAdd(r1, r2))
      unchanged == [v1 |-> v1, v2 |-> v2, hit |-> FALSE]
      touching ==
        IF dist2 = QI(0)
          THEN {[v1 |-> NaNVec, v2 |-> NaNVec, hit |-> TRUE]}
          ELSE LET v_rel == VSub(v1, v2)
                   vd == VDot(v_rel, dist_vec)
                   k == QDiv(QMul(QNeg(QAdd(QI(1), restitution)), vd),
                             QMul(dist2, QAdd(QDiv(QI(1), m1), QDiv(QI(1), m2))))
                   resolved == [v1 |-> VAdd(v1, VScale(QDiv(k, m1), dist_vec)),
                                v2 |-> VSub(v2, VScale(QDiv(k, m2), dist_vec)),
                                hit |-> TRUE]
               IN (IF QLe(vd, QI(0)) THEN {resolved} ELSE {})
                  \cup (IF QLe(QI(0), vd) THEN {unchanged} ELSE {})
  IN (IF QLe(dist2, rsum2) THEN touching ELSE {})
     \cup (IF QLe(rsum2, dist2) THEN {unchanged} ELSE {})

\* R1, R2 = 0.4, 0.4
Radius == Qn(2, 5)

\* x1 at the origin; x2 in contact on and off the axes, exactly at 0.8,
\* out of contact, or coincident; (-0.7, -0.2) with v1 = (-0.2, 0.7), v2 = 0
\* is a tangential contact off the axes
CollX2 == { <<Qn(3, 10), Qn(4, 10)>>, <<Qn(8, 10), QI(0)>>, <<Qn(1, 2), Qn(1, 2)>>,
            <<Qn(6, 10), Qn(8, 10)>>, <<Qn(-1, 2), QI(0)>>, VI(0, 0),
            <<Qn(-7, 10), Qn(-1, 5)>> }
CollV == { VI(2, 0), VI(-1, 0), VI(1, 1), <<Qn(-1, 5), Qn(7, 10)>>, VI(0, 0) }
CollM == { QI(1), QI(2) }
CollE == { QI(0), QI(1) }

VARIABLES
  c_x1, c_x2, c_v1, c_v2, c_m1, c_m2, c_e,  \* arguments
  c_out,                                    \* (v1_new, v2_new, has_collided)
  c_done

coll_vars == <<c_x1, c_x2, c_v1, c_v2, c_m1, c_m2, c_e, c_out, c_done>>

NoOut == [v1 |-> VI(0, 0), v2 |-> VI(0, 0), hit |-> FALSE]

CollInitVars ==
  /\ c_x1 = VI(0, 0)
  /\ c_x2 \in CollX2
  /\ c_v1 \in CollV /\ c_v2 \in CollV
  /\ c_m1 \in CollM /\ c_m2 \in CollM
  /\ c_e \in CollE
  /\ c_out = NoOut
  /\ c_done = FALSE

CollIdle ==
  /\ c_x1 = VI(0, 0) /\ c_x2 = VI(0, 0) /\ c_v1 = VI(0, 0) /\ c_v2 = VI(0, 0)
  /\ c_m1 = QI(1) /\ c_m2 = QI(1) /\ c_e = QI(0)
  /\ c_out = NoOut /\ c_done = FALSE

Resolve ==
  /\ ~c_done
  /\ c_out' \in compute_collision(c_x1, c_x2, c_v1, c_v2, c_m1, c_m2, Radius, Radius, c_e)
  /\ c_done' = TRUE
  /\ UNCHANGED <<c_x1, c_x2, c_v1, c_v2, c_m1, c_m2, c_e>>

\* ------------------------------------------------------------------
\* Collision animation loop (collisions.run)
\* ------------------------------------------------------------------

\* BASE_DT = 0.03
BASE_DT == Qn(3, 100)
\* Physics steps explored since a reset (the code runs batches of 200 per
\* script run).
MaxSteps == 40
\* Slider changes explored per session.
MaxSliderMoves == 1

\* sidebar values: (v1_init, v2_init), (m1, m2), time scale; the offset slider
\* is kept at 0.0 (off-axis contacts exceed TLC's 32-bit integers)
TrajVel == { <<3, -4>>, <<5, -2>> }
TrajMass == { <<QI(2), QI(2)>>, <<QI(1), QI(2)>> }
TrajScale == { QI(1), QI(2) }
Offset == QI(0)

VARIABLES
  t_x1, t_x2, t_v1, t_v2,   \* st.session_state.x1, x2, v1, v2
  t_m1, t_m2, t_e, t_ts,    \* sliders m1, m2, restitution, time_scale
  t_vinit,                  \* sliders <<v1_init, v2_init>>
  t_running,                \* st.session_state.sim_running
  t_energy,                 \* st.session_state.energy_history (one entry per frame)
  t_step,                   \* loop iterations since the last reset
  t_calls,                  \* compute_collision calls since the last reset
  t_moves                   \* slider changes so far

traj_vars == <<t_x1, t_x2, t_v1, t_v2, t_m1, t_m2, t_e, t_ts, t_vinit, t_running,
               t_energy, t_step, t_calls, t_moves>>

KineticEnergy(m1, m2, v1, v2) ==
  QAdd(QMul(QMul(Qn(1, 2), m1), VDot(v1, v1)), QMul(QMul(Qn(1, 2), m2), VDot(v2, v2)))

\* first run: 'sim_running' not in session_state
TrajInitVars ==
  /\ t_vinit \in TrajVel
  /\ t_x1 = VI(-4, 0)
  /\ t_x2 = <<QI(4), Offset>>
  /\ t_v1 = VI(t_vinit[1], 0)
  /\ t_v2 = VI(t_vinit[2], 0)
  /\ \E m \in TrajMass : t_m1 = m[1] /\ t_m2 = m[2]
  /\ t_e \in CollE
  /\ t_ts = QI(1)
  /\ t_running = FALSE
  /\ t_energy = << >>
  /\ t_step = 0
  /\ t_calls = 0
  /\ t_moves = 0

TrajIdle ==
  /\ t_vinit = <<0, 0>> /\ t_x1 = VI(0, 0) /\ t_x2 = VI(0, 0)
  /\ t_v1 = VI(0, 0) /\ t_v2 = VI(0, 0) /\ t_m1 = QI(1) /\ t_m2 = QI(1)
  /\ t_e = QI(0) /\ t_ts = QI(1) /\ t_running = FALSE /\ t_energy = << >>
  /\ t_step = 0 /\ t_calls = 0 /\ t_moves = 0

\* a sidebar change (the script reruns with the new value; a running
\* simulation continues with it); one slider per rerun
TrajSliders ==
  /\ t_moves < MaxSliderMoves
  /\ \/ \E vi \in TrajVel \ {t_vinit} :
          t_vinit' = vi /\ UNCHANGED <<t_m1, t_m2, t_e, t_ts>>
     \/ \E m \in TrajMass \ {<<t_m1, t_m2>>} :
          t_m1' = m[1] /\ t_m2' = m[2] /\ UNCHANGED <<t_vinit, t_e, t_ts>>
     \/ \E e \in CollE \ {t_e} :
          t_e' = e /\ UNCHANGED <<t_vinit, t_m1, t_m2, t_ts>>
     \/ \E ts \in TrajScale \ {t_ts} :
          t_ts' = ts /\ UNCHANGED <<t_vinit, t_m1, t_m2, t_e>>
  /\ t_moves' = t_moves + 1
  /\ UNCHANGED <<t_x1, t_x2, t_v1, t_v2, t_running, t_energy, t_step, t_calls>>

\* "Start"
TrajStart ==
  /\ t_running' = TRUE
  /\ UNCHANGED <<t_x1, t_x2, t_v1, t_v2, t_m1, t_m2, t_e, t_ts, t_vinit,
                 t_energy, t_step, t_calls, t_moves>>

\* "Stop"
TrajStop ==
  /\ t_running' = FALSE
  /\ UNCHANGED <<t_x1, t_x2, t_v1, t_v2, t_m1, t_m2, t_e, t_ts, t_vinit,
                 t_energy, t_step, t_calls, t_moves>>

\* "Reset": positions and velocities from the current slider values
TrajReset ==
  /\ t_running' = FALSE
  /\ t_x1' = VI(-4, 0)
  /\ t_x2' = <<QI(4), Offset>>
  /\ t_v1' = VI(t_vinit[1], 0)
  /\ t_v2' = VI(t_vinit[2], 0)
  /\ t_energy' = << >>
  /\ t_step' = 0
  /\ t_calls' = 0
  /\ UNCHANGED <<t_m1, t_m2, t_e, t_ts, t_vinit, t_moves>>

\* variant: collision resolved before the position update, positions moved
\* with the resolved velocities
TrajStep_Mut ==
  /\ t_running
  /\ t_step < MaxSteps
  /\ LET dt == QMul(BASE_DT, t_ts)
     IN \E out \in compute_collision(t_x1, t_x2, t_v1, t_v2, t_m1, t_m2, Radius, Radius, t_e) :
        /\ t_x1' = VAdd(t_x1, VScale(dt, out.v1))
        /\ t_x2' = VAdd(t_x2, VScale(dt, out.v2))
        /\ t_v1' = out.v1
        /\ t_v2' = out.v2
        /\ t_energy' = Append(t_energy, KineticEnergy(t_m1, t_m2, out.v1, out.v2))
  /\ t_step' = t_step + 1
  /\ t_calls' = t_calls + 1
  /\ UNCHANGED <<t_m1, t_m2, t_e, t_ts, t_vinit, t_running, t_moves>>

\* one iteration of the simulation loop: Euler position update with
\* dt = BASE_DT * time_scale, one compute_collision call, velocities and
\* energy frame stored
TrajStep ==
  /\ t_running
  /\ t_step < MaxSteps
  /\ LET dt == QMul(BASE_DT, t_ts)
         x1 == VAdd(t_x1, VScale(dt, t_v1))
         x2 == VAdd(t_x2, VScale(dt, t_v2))
     IN \E out \in compute_collision(x1, x2, t_v1, t_v2, t_m1, t_m2, Radius, Radius, t_e) :
        /\ t_x1' = x1
        /\ t_x2' = x2
        /\ t_v1' = out.v1
        /\ t_v2' = out.v2
        /\ t_energy' = Append(t_energy, KineticEnergy(t_m1, t_m2, out.v1, out.v2))
  /\ t_step' = t_step + 1
  /\ t_calls' = t_calls + 1
  /\ UNCHANGED <<t_m1, t_m2, t_e, t_ts, t_vinit, t_running, t_moves>>

\* ------------------------------------------------------------------
\* Simple pendulum integrators (pendulum.simulate_pendulum,
\* double_pendulum.simulate_simple)
\*
\* Array elements are the float64 expressions the code evaluates, as terms:
\* inputs by name, earlier array elements by reference (arr, python index),
\* np.sin / np.cos as named operations. Evaluating a term in float64 gives
\* the code's value bit for bit.
\* ------------------------------------------------------------------

Lit(v) == [op |-> "lit", v |-> v]
In(nm) == [op |-> "in", nm |-> nm]
Ref(arr, i) == [op |-> "ref", arr |-> arr, i |-> i]
Op1(o, a) == [op |-> o, a |-> a]
Op2(o, a, b) == [op |-> o, a |-> a, b |-> b]

\* int(x): truncation toward zero
Trunc(q) == IF q.n >= 0 THEN q.n \div q.d ELSE -((-q.n) \div q.d)

\* omega[i-1] - (g / L) * np.sin(theta[i-1]) * dt - gamma * omega[i-1] * dt
OmegaStep(i) ==
  Op2("sub",
      Op2("sub", Ref("omega", i - 1),
                 Op2("mul", Op2("mul", Op2("div", In("g"), In("L")),
                                       Op1("sin", Ref("theta", i - 1))),
                            In("dt"))),
      Op2("mul", Op2("mul", In("gamma"), Ref("omega", i - 1)), In("dt")))

\* variant: theta advanced with the old omega
EulerLoop_Mut(n) ==
  [time  |-> [k \in 1..n |-> IF k = 1 THEN Lit(QI(0))
                             ELSE Op2("add", Ref("time", k - 2), In("dt"))],
   theta |-> [k \in 1..n |-> IF k = 1 THEN In("theta0")
                             ELSE Op2("add", Ref("theta", k - 2), Op2("mul", Ref("omega", k - 2), In("dt")))],
   omega |-> [k \in 1..n |-> IF k = 1 THEN In("omega0") ELSE OmegaStep(k - 1)]]

\* theta[0] = theta0; omega[0] = omega0; time = zeros; then for i in
\* range(1, n) element i (sequence position i + 1) is assigned once
EulerLoop(n) ==
  [time  |-> [k \in 1..n |-> IF k = 1 THEN Lit(QI(0))
                             ELSE Op2("add", Ref("time", k - 2), In("dt"))],
   theta |-> [k \in 1..n |-> IF k = 1 THEN In("theta0")
                             ELSE Op2("add", Ref("theta", k - 2), Op2("mul", Ref("omega", k - 1), In("dt")))],
   omega |-> [k \in 1..n |-> IF k = 1 THEN In("omega0") ELSE OmegaStep(k - 1)]]

\* n = int(t_max / dt) with t_max / dt a float64 division: the set of values
\* it can take. t_max and dt are decimal slider values (at most 3 decimals),
\* so an inexact quotient is at least 1/1000 from an integer and truncates
\* as the exact one; an exact integer quotient k can come out of the rounded
\* operands just below k (5.1 / 0.01 = 509.99999999999994), giving k - 1
\* (toward zero).
IntQuotient(t_max, dt) ==
  LET q == QDiv(t_max, dt)
  IN IF q.d # 1 \/ q.n = 0 THEN {Trunc(q)}
     ELSE IF q.n > 0 THEN {q.n, q.n - 1} ELSE {q.n, q.n + 1}

\* body after n = int(t_max / dt): np.zeros(n) raises ValueError for n < 0
\* and theta[0] = theta0 raises IndexError for n = 0
simulate_pendulum(n) ==
  IF n < 0 THEN "ValueError"
  ELSE IF n = 0 THEN "IndexError"
  ELSE EulerLoop(n)

\* returns (x, y); env holds the local theta / omega arrays that x and y refer to
simulate_simple(n) ==
  IF n < 0 THEN "ValueError"
  ELSE IF n = 0 THEN "IndexError"
  ELSE LET r == EulerLoop(n)
       IN [x |-> [k \in 1..n |-> Op2("mul", In("L"), Op1("sin", Ref("theta", k - 1)))],
           y |-> [k \in 1..n |-> Op2("mul", Op1("neg", In("L")), Op1("cos", Ref("theta", k - 1)))],
           env |-> [theta |-> r.theta, omega |-> r.omega]]

\* slider values (pendulum.py run; also inside the ranges of the simple mode
\* of double_pendulum.py, which passes omega0 = 0.0): theta0 = np.radians(deg).
\* 5.1 / 0.05 and 5.1 / 0.01 round below 102 and 510.
PendDeg == { 57, 80 }
PendOmega0 == { QI(0), Qn(3, 2) }
PendL == { QI(1), Qn(1, 2) }
PendGamma == { QI(0), Qn(1, 10) }
PendDt == { Qn(1, 20), Qn(1, 100) }
PendTmax == { QI(5), Qn(51, 10) }

VARIABLES
  p_in,     \* [deg, omega0, L, gamma, dt, t_max] (g is the 9.81 default)
  p_out,    \* simulate_pendulum result
  s_out,    \* simulate_simple result
  p_done

pend_vars == <<p_in, p_out, s_out, p_done>>

PendInitVars ==
  /\ p_in \in [deg : PendDeg, omega0 : PendOmega0, L : PendL,
               gamma : PendGamma, dt : PendDt, t_max : PendTmax]
  /\ p_out = "none"
  /\ s_out = "none"
  /\ p_done = FALSE

PendIdle ==
  /\ p_in = [deg |-> 1, omega0 |-> QI(0), L |-> QI(1), gamma |-> QI(0),
             dt |-> QI(1), t_max |-> QI(1)]
  /\ p_out = "none"
  /\ s_out = "none"
  /\ p_done = FALSE

Simulate ==
  /\ ~p_done
  \* both functions evaluate the same t_max / dt, so they get the same n
  /\ \E n \in IntQuotient(p_in.t_max, p_in.dt) :
       /\ p_out' = simulate_pendulum(n)
       /\ s_out' = simulate_simple(n)
  /\ p_done' = TRUE
  /\ UNCHANGED p_in

\* ------------------------------------------------------------------
\* Specifications (one per component; the other components stay idle)
\* ------------------------------------------------------------------

vars == <<life_vars, nb_vars, coll_vars, traj_vars, pend_vars>>

LifeOthers == UNCHANGED <<nb_vars, coll_vars, traj_vars, pend_vars>>
NbOthers == UNCHANGED <<life_vars, coll_vars, traj_vars, pend_vars>>
CollOthers == UNCHANGED <<life_vars, nb_vars, traj_vars, pend_vars>>
TrajOthers == UNCHANGED <<life_vars, nb_vars, coll_vars, pend_vars>>
PendOthers == UNCHANGED <<life_vars, nb_vars, coll_vars, traj_vars>>

LifeInit == LifeInitVars /\ NbIdle /\ CollIdle /\ TrajIdle /\ PendIdle
LifeNext ==
  \/ Reset /\ LifeOthers
  \/ BackMove /\ LifeOthers
  \/ BackNoop /\ LifeOthers
  \/ Next_ /\ LifeOthers
LifeSpec == LifeInit /\ [][LifeNext]_vars

NbInit == LifeIdle /\ NbInitVars /\ CollIdle /\ TrajIdle /\ PendIdle
NbNext == NbCompute /\ NbOthers
NbSpec == NbInit /\ [][NbNext]_vars

CollInit == LifeIdle /\ NbIdle /\ CollInitVars /\ TrajIdle /\ PendIdle
CollNext == Resolve /\ CollOthers
CollSpec == CollInit /\ [][CollNext]_vars

TrajInit == LifeIdle /\ NbIdle /\ CollIdle /\ TrajInitVars /\ PendIdle
TrajNext ==
  \/ TrajStart /\ TrajOthers
  \/ TrajStop /\ TrajOthers
  \/ TrajReset /\ TrajOthers
  \/ TrajStep /\ TrajOthers
  \/ TrajSliders /\ TrajOthers
TrajSpec == TrajInit /\ [][TrajNext]_vars

PendInit == LifeIdle /\ NbIdle /\ CollIdle /\ TrajIdle /\ PendInitVars
PendNext == Simulate /\ PendOthers
PendSpec == PendInit /\ [][PendNext]_vars

\* ------------------------------------------------------------------
\* Properties
\* ------------------------------------------------------------------

\* C1: the history always holds exactly tri_step+1 snapshots with the
\* current one last; Next puts its grid at index tri_step+1 and increments
\* tri_step; Back (from tri_step > 0) decrements tri_step and drops every
\* snapshot after the new tri_step.
C1_HistoryStack ==
  /\ [](Len(tri_history) = tri_step + 1 /\ tri_step >= 0)
  /\ [][ /\ (lastOp' = "Forward" =>
               /\ tri_step' = tri_step + 1
               /\ Len(tri_history') = tri_step' + 1
               /\ SubSeq(tri_history', 1, tri_step + 1) = tri_history)
         /\ (lastOp' = "Back" =>
               /\ tri_step > 0
               /\ tri_step' = tri_step - 1
               /\ tri_history' = SubSeq(tri_history, 1, tri_step' + 1)) ]_vars

C1_Witness == lastOp = "Back" /\ tri_step >= 1

\* C2: after Forward steps, Back steps back to index k and a Next under new
\* rules, the history is the prefix as it stood at k followed by
\* apply_triangular_rules of the grid at k under the new rules.
C2_BranchNoResidue ==
  lastOp = "Forward" =>
    tri_history = origin[tri_step] \o
                  << apply_triangular_rules(origin[tri_step][tri_step], lastRules[1], lastRules[2],
                                            GridRows, GridCols) >>

C2_Witness == branched /\ tri_step >= 2

\* C3: Back at tri_step = 0 leaves tri_step and the history unchanged.
C3_BackAtZeroNoop ==
  [][ (lastOp' \in {"Back", "BackNoop"} /\ tri_step = 0) =>
        UNCHANGED <<tri_step, tri_history>> ]_vars

C3_Witness == lastOp = "BackNoop" /\ Len(tri_history) = 1

\* C4: the grid Next appends is, cell by cell, alive iff (alive and the
\* live-neighbour count of the old grid is in survive) or (dead and the count
\* is in birth); the grids already in the history are unchanged.
NeighborCount(grid, p) ==
  Cardinality({q \in get_triangle_neighbors(p[1], p[2], GridRows, GridCols) : grid[q] = 1})

C4_ForwardRule ==
  [][ lastOp' = "Forward" =>
        LET old == tri_history[tri_step + 1]
            new == tri_history'[tri_step' + 1]
        IN /\ SubSeq(tri_history', 1, tri_step + 1) = tri_history
           /\ \A p \in Cells(GridRows, GridCols) :
                (new[p] = 1) <=> \/ old[p] = 1 /\ NeighborCount(old, p) \in lastRules'[2]
                                 \/ old[p] = 0 /\ NeighborCount(old, p) \in lastRules'[1] ]_vars

C4_Witness ==
  lastOp = "Forward" /\ tri_step >= 1 /\ tri_history[tri_step + 1] # tri_history[tri_step]
  /\ \E p \in Cells(GridRows, GridCols) : tri_history[tri_step][p] = 1 /\ tri_history[tri_step + 1][p] = 1

\* C5: get_triangle_neighbors(r, c, 12, 16) is exactly the in-bounds part
\* of the orientation-dependent edge neighbours ({left, right, bottom} for
\* (r+c) even, {left, right, top} otherwise) united with the in-bounds part
\* of the fixed vertex-offset table.
VertexTable == { <<-1, -1>>, <<-1, 0>>, <<-1, 1>>, <<0, -2>>, <<0, 2>>,
                 <<1, -1>>, <<1, 0>>, <<1, 1>>, <<2, 0>> }

C5_NeighbourTopology ==
  nb_done =>
    LET r == nb_cell[1]
        c == nb_cell[2]
        InB(p) == 0 <= p[1] /\ p[1] < NbRows /\ 0 <= p[2] /\ p[2] < NbCols
        edges == IF (r + c) % 2 = 0 THEN {<<r, c - 1>>, <<r, c + 1>>, <<r + 1, c>>}
                                    ELSE {<<r, c - 1>>, <<r, c + 1>>, <<r - 1, c>>}
        verts == {<<r + o[1], c + o[2]>> : o \in VertexTable}
    IN /\ \A p \in nb_res : InB(p)
       /\ nb_res = {p \in edges : InB(p)} \cup {p \in verts : InB(p)}

C5_Witness == nb_done /\ nb_cell = <<0, 0>>

\* C6: some interior cell of the 12x16 grid has 12 distinct neighbours and
\* no cell has more than 12.
C6_MaxTwelve ==
  /\ \E p \in Cells(NbRows, NbCols) :
       Cardinality(get_triangle_neighbors(p[1], p[2], NbRows, NbCols)) = 12
  /\ (nb_done => Cardinality(nb_res) <= 12)

\* C9: when compute_collision reports has_collided = False the returned
\* velocities are the input velocities.
C9_NoHitUnchanged ==
  (c_done /\ ~c_out.hit) => (c_out.v1 = c_v1 /\ c_out.v2 = c_v2)

\* contact but separating (vn > 0)
C9_Witness ==
  /\ c_done /\ ~c_out.hit
  /\ QLe(VDot(VSub(c_x1, c_x2), VSub(c_x1, c_x2)), QMul(QAdd(Radius, Radius), QAdd(Radius, Radius)))

\* C10: each step moves both particles by velocity*dt with the pre-step
\* velocities, then applies compute_collision once to the moved positions and
\* records one energy frame: at most one impulse per step and one frame per
\* step since the start.
C10_OneResolvePerStep ==
  /\ [](Len(t_energy) = t_step /\ t_calls = t_step)
  /\ [][ t_step' = t_step + 1 =>
           LET dt == QMul(BASE_DT, t_ts)
               x1 == VAdd(t_x1, VScale(dt, t_v1))
               x2 == VAdd(t_x2, VScale(dt, t_v2))
           IN /\ t_x1' = x1 /\ t_x2' = x2
              /\ \E out \in compute_collision(x1, x2, t_v1, t_v2, t_m1, t_m2, Radius, Radius, t_e) :
                   t_v1' = out.v1 /\ t_v2' = out.v2
              /\ t_calls' = t_calls + 1
              /\ Len(t_energy') = Len(t_energy) + 1 ]_vars

C10_Witness == t_step >= 1 /\ t_moves = 0 /\ t_v1 # VI(t_vinit[1], 0)

\* Set of signs (-1, 0, 1) a term's value can have: L > 0, theta0 =
\* radians(deg) > 0, cos(radians(deg)) > 0 for 0 < deg <= 80 (< pi/2).
AnySign == {-1, 0, 1}
SignQ(q) == IF q.n > 0 THEN {1} ELSE IF q.n < 0 THEN {-1} ELSE {0}
IsTheta0(t, env) == t = In("theta0") \/ (t = Ref("theta", 0) /\ env.theta[1] = In("theta0"))
RECURSIVE SignOf(_, _, _)
SignOf(t, env, inp) ==
  CASE t.op = "lit" -> SignQ(t.v)
    [] t.op = "in" /\ t.nm = "L" -> {1}
    [] t.op = "in" /\ t.nm = "theta0" -> {1}
    [] t.op = "in" /\ t.nm = "omega0" -> SignQ(inp.omega0)
    [] t.op = "neg" -> { -x : x \in SignOf(t.a, env, inp) }
    [] t.op = "mul" -> { x * y : x \in SignOf(t.a, env, inp), y \in SignOf(t.b, env, inp) }
    [] t.op = "cos" -> IF IsTheta0(t.a, env) /\ inp.deg <= 80 THEN {1} ELSE AnySign
    [] OTHER -> AnySign

KnownDifferent(t1, t2, env, inp) ==
  SignOf(t1, env, inp) \cap SignOf(t2, env, inp) = {}

\* the recurrence of the claim, on the returned arrays
EulerOK(th, om, n) ==
  /\ Len(th) = n /\ Len(om) = n
  /\ th[1] = In("theta0") /\ om[1] = In("omega0")
  /\ \A i \in 1..(n - 1) :
       /\ om[i + 1] =
            Op2("sub",
                Op2("sub", Ref("omega", i - 1),
                           Op2("mul", Op2("mul", Op2("div", In("g"), In("L")),
                                                 Op1("sin", Ref("theta", i - 1))), In("dt"))),
                Op2("mul", Op2("mul", In("gamma"), Ref("omega", i - 1)), In("dt")))
       /\ th[i + 1] = Op2("add", Ref("theta", i - 1), Op2("mul", Ref("omega", i), In("dt")))

\* C11 (as stated): for both implementations the returned theta and omega
\* arrays have length n, start at theta0 / omega0 and follow the
\* semi-implicit Euler recurrence. For simulate_simple the returned pair is
\* (x, y); its second array must at least not differ from omega0 at index 0.
C11_BothReturnThetaOmega ==
  p_done =>
    \E n \in IntQuotient(p_in.t_max, p_in.dt) :
       /\ EulerOK(p_out.theta, p_out.omega, n)
       /\ Len(s_out.x) = n /\ Len(s_out.y) = n
       /\ ~KnownDifferent(s_out.x[1], In("theta0"), s_out.env, p_in)
       /\ ~KnownDifferent(s_out.y[1], In("omega0"), s_out.env, p_in)

\* C11 (amended): simulate_pendulum returns theta and omega of length
\* n = int(t_max/dt) (float64 division) following the recurrence; simulate_simple runs the same
\* recurrence internally but returns x = L sin(theta), y = -L cos(theta).
C11_Amended ==
  p_done =>
    \E n \in IntQuotient(p_in.t_max, p_in.dt) :
       /\ EulerOK(p_out.theta, p_out.omega, n)
       /\ EulerOK(s_out.env.theta, s_out.env.omega, n)
       /\ Len(s_out.x) = n /\ Len(s_out.y) = n
       /\ \A k \in 1..n :
            /\ s_out.x[k] = Op2("mul", In("L"), Op1("sin", Ref("theta", k - 1)))
            /\ s_out.y[k] = Op2("mul", Op1("neg", In("L")), Op1("cos", Ref("theta", k - 1)))

C11_Witness ==
  /\ p_done /\ p_in.gamma # QI(0)
  /\ p_in.t_max = Qn(51, 10) /\ p_in.dt = Qn(1, 100) /\ Len(p_out.theta) = 509

\* C13: the neighbour relation is symmetric and irreflexive.
C13_Symmetric ==
  nb_done =>
    /\ nb_cell \notin nb_res
    /\ \A b \in Cells(NbRows, NbCols) :
         b \in nb_res <=> nb_cell \in get_triangle_neighbors(b[1], b[2], NbRows, NbCols)

====
